---- MODULE Spec2Model ----
(***************************************************************************)
(* Model of the devika UI synchronisation layer:                           *)
(*   src/ui/src/lib/store.js    Session Store (svelte writables) and the   *)
(*                              Snapshot Cache (localStorage)              *)
(*   src/ui/src/lib/sockets.js  Event Channel Manager, Notification        *)
(*                              Router, Monologue Deduplicator and the     *)
(*                              Fetch Gateway                              *)
(* JavaScript runs one task at a time, so every action below is one        *)
(* run-to-completion task: a call made by the UI, a socket event           *)
(* delivery, or the continuation of an async function after an await.      *)
(***************************************************************************)
EXTENDS Integers, Sequences, FiniteSets, TLC

VARIABLES
    agentState,     \* store.js:63  writable(null)
    isSending,      \* store.js:64  writable(false)
    messages,       \* store.js:45  writable([])
    tokenUsage,     \* store.js:67  writable(0)
    prevMonologue,  \* sockets.js:6 module variable
    subscribers,    \* number of callbacks subscribed to agentState (sockets.js:68)
    handlers,       \* socket listeners registered by initializeSockets, per event name
    listeners,      \* socket listeners registered through socketListener, per event name
    opened,         \* socket.connect() has been called (sockets.js:20)
    connected,      \* socket.connected (sockets.js:99)
    selection,      \* store.js:49-51 selectedProject / selectedModel / selectedSearchEngine
    ls,             \* localStorage, per key (Null: the key is absent)
    pendingAgentFetch, \* fetchAgentState calls awaiting their response
    exec,           \* the executeAgent task: where it waits, and what it has done
    pending,        \* other gateway requests awaiting their response, per operation
    inFlightAppends, \* entries streamed into the log during a pending fetchMessages, not yet replaced
    lists,          \* store.js:58-60 projectList / modelList / searchEngineList
    defaultData,    \* localStorage "defaultData" (NoItem: the key is absent)
    projectOps,     \* createProject / deleteProject calls awaiting their response
    hist,           \* history of AgentState replacements and of detached fetches
    toasts,         \* advisories shown by the last step, in order
    emits,          \* socket events emitted by the last step
    netCalls,       \* HTTP requests issued by the last step
    threw,          \* the last step ended by raising
    lastOp          \* the last step taken and its inputs (history)

vars == <<agentState, isSending, messages, tokenUsage, prevMonologue, subscribers,
          handlers, listeners, opened, connected, selection, ls, pendingAgentFetch, exec, hist,
          pending, inFlightAppends, lists, defaultData, projectOps,
          toasts, emits, netCalls, threw, lastOp>>

\* the Session Store fields the event handlers write
sessionVars == <<agentState, isSending, messages, tokenUsage>>

channelVars == <<subscribers, handlers, listeners, opened, connected>>

cacheVars == <<selection, ls>>

\* the bootstrap data and its cached copy
bootVars == <<lists, defaultData>>

fetchVars == <<pending, inFlightAppends, lists, defaultData, projectOps>>

(***************************************************************************)
(* Bounds                                                                  *)
(***************************************************************************)
MaxAttach == 2      \* calls of initializeSockets
MaxBatch == 2       \* elements of one agent-state array
MaxLog == 2         \* entries of the message log
MaxInflight == 1    \* concurrent requests of one kind
MaxProjects == 3    \* entries of the project list
MaxCallbacks == 2   \* callbacks registered through socketListener, per event name

(***************************************************************************)
(* Values                                                                  *)
(***************************************************************************)
\* JavaScript null / undefined
Null == "<null>"

\* agentState holds null or an object
NullState == [isNull |-> TRUE]

Monologues == {Null, "a", "b"}

AgentStates == [internal_monologue : Monologues, completed : BOOLEAN]

\* the elements before the last one of a batch: one that would clear the
\* sending flag and one that would not, with monologues of their own
EarlierStates == {[internal_monologue |-> "b", completed |-> TRUE],
                  [internal_monologue |-> "a", completed |-> FALSE]}

\* non-empty arrays of at most MaxBatch snapshots
Batches ==
    UNION {{earlier \o <<last>> : earlier \in [1..(n - 1) -> EarlierStates],
                                  last \in AgentStates} : n \in 1..MaxBatch}

MessageRecords == {"m1", "m2"}

TokenCounts == {1, 2}

\* "debug" stands for any unrecognised kind, Null for a payload without `type`
Kinds == {"error", "warning", "info", "debug", Null}

AdvisoryTexts == {"slow network"}

Advisories == [type : Kinds, message : AdvisoryTexts]

OwnEvents == {"socket_response", "server-message", "agent-state", "tokens",
              "inference", "info"}

\* the channels collaborators listen on: two of the fixed names and one of
\* their own
ListenerChannels == {"agent-state", "info", "code-update"}

\* JavaScript truthiness of a string-or-null value
Truthy(v) == v # Null /\ v # ""

\* state?.internal_monologue
Monologue(state) == IF state = NullState THEN Null ELSE state.internal_monologue

(***************************************************************************)
(* The store as a value, so that a handler registered n times can be run   *)
(* n times within one step.                                                *)
(***************************************************************************)
Cur == [agentState |-> agentState, isSending |-> isSending, messages |-> messages,
        tokenUsage |-> tokenUsage, prevMonologue |-> prevMonologue,
        toasts |-> <<>>]

\* svelte-sonner toast / toast.error / toast.warning / toast.info
Toast(S, level, text) ==
    [S EXCEPT !.toasts = Append(@, [level |-> level, message |-> text])]

handleMonologueChange(S, newValue) ==
    IF Truthy(newValue) THEN Toast(S, "default", newValue) ELSE S

\* mutant: the callback shows the monologue without recording it as seen
MonologueSubscriberForgetful(S) ==
    IF /\ S.agentState # NullState
       /\ Truthy(S.agentState.internal_monologue)
       /\ S.agentState.internal_monologue # S.prevMonologue
    THEN handleMonologueChange(S, S.agentState.internal_monologue)
    ELSE S

\* the callback given to agentState.subscribe
MonologueSubscriber(S) ==
    IF /\ S.agentState # NullState
       /\ Truthy(S.agentState.internal_monologue)
       /\ S.agentState.internal_monologue # S.prevMonologue
    THEN [handleMonologueChange(S, S.agentState.internal_monologue)
            EXCEPT !.prevMonologue = S.agentState.internal_monologue]
    ELSE S

\* mutant: the callbacks run only while the channel's listeners are registered
NotifySubscribersAttached(S, n) ==
    IF n = 0 \/ handlers["agent-state"] = 0 THEN S ELSE MonologueSubscriber(S)

RECURSIVE NotifySubscribers(_, _)
NotifySubscribers(S, n) ==
    IF n = 0 THEN S ELSE NotifySubscribers(MonologueSubscriber(S), n - 1)

\* svelte's safe_not_equal: objects always count as changed, null === null does not
SafeNotEqual(a, b) == a # b \/ a # NullState

\* agentState.set(v)
AgentStateSet(S, v) ==
    IF SafeNotEqual(S.agentState, v)
    THEN NotifySubscribers([S EXCEPT !.agentState = v], subscribers)
    ELSE S

\* isSending.set(b); nothing in this layer subscribes to isSending
IsSendingSet(S, b) == [S EXCEPT !.isSending = b]

OnServerMessage(S, data) == [S EXCEPT !.messages = Append(@, data.messages)]

\* mutant: the first element of the batch is taken instead of the last
OnAgentStateFirst(S, state) ==
    LET lastState == state[1]
        S1 == AgentStateSet(S, lastState)
    IN  IF lastState.completed THEN IsSendingSet(S1, FALSE) ELSE S1

\* mutant: a terminal snapshot does not clear the sending flag
OnAgentStateNoClear(S, state) == AgentStateSet(S, state[Len(state)])

\* mutant: a snapshot that is not terminal marks the invocation as outstanding
OnAgentStateMarksBusy(S, state) ==
    LET lastState == state[Len(state)]
    IN  IsSendingSet(AgentStateSet(S, lastState), ~lastState.completed)

\* mutant: a terminal snapshot anywhere in the batch clears the sending flag
OnAgentStateAnyCompleted(S, state) ==
    LET lastState == state[Len(state)]
        S1 == AgentStateSet(S, lastState)
    IN  IF \E i \in DOMAIN state : state[i].completed
        THEN IsSendingSet(S1, FALSE)
        ELSE S1

OnAgentState(S, state) ==
    LET lastState == state[Len(state)]
        S1 == AgentStateSet(S, lastState)
    IN  IF lastState.completed THEN IsSendingSet(S1, FALSE) ELSE S1

\* mutant: the payload is added to the running total
OnTokensAccumulate(S, tokens) == [S EXCEPT !.tokenUsage = @ + tokens.token_usage]

OnTokens(S, tokens) == [S EXCEPT !.tokenUsage = tokens.token_usage]

\* mutant: an error advisory is shown without clearing the sending flag
OnInferenceNoClear(S, error) ==
    IF error.type = "error"
    THEN Toast(S, "error", error.message)
    ELSE IF error.type = "warning"
         THEN Toast(S, "warning", error.message)
         ELSE S

OnInference(S, error) ==
    IF error.type = "error"
    THEN IsSendingSet(Toast(S, "error", error.message), FALSE)
    ELSE IF error.type = "warning"
         THEN Toast(S, "warning", error.message)
         ELSE S

\* mutant: a warning clears the sending flag as an error does
OnInfoWarningClears(S, info) ==
    IF info.type = "error" \/ info.type = "warning"
    THEN IsSendingSet(Toast(S, info.type, info.message), FALSE)
    ELSE IF info.type = "info"
         THEN Toast(S, "info", info.message)
         ELSE S

\* mutant: the last branch is a plain else, so unknown kinds are shown as info
OnInfoDefaultToast(S, info) ==
    IF info.type = "error"
    THEN IsSendingSet(Toast(S, "error", info.message), FALSE)
    ELSE IF info.type = "warning"
         THEN Toast(S, "warning", info.message)
         ELSE Toast(S, "info", info.message)

OnInfo(S, info) ==
    IF info.type = "error"
    THEN IsSendingSet(Toast(S, "error", info.message), FALSE)
    ELSE IF info.type = "warning"
         THEN Toast(S, "warning", info.message)
         ELSE IF info.type = "info"
              THEN Toast(S, "info", info.message)
              ELSE S

Handler(e, S, payload) ==
    CASE e = "server-message" -> OnServerMessage(S, payload)
      [] e = "agent-state"    -> OnAgentState(S, payload)
      [] e = "tokens"         -> OnTokens(S, payload)
      [] e = "inference"      -> OnInference(S, payload)
      [] e = "info"           -> OnInfo(S, payload)
      [] OTHER                -> S

\* the payloads the server sends with event e
Payloads(e) ==
    CASE e = "server-message" -> [messages : MessageRecords]
      [] e = "agent-state"    -> Batches
      [] e = "tokens"         -> [token_usage : TokenCounts]
      [] e = "inference"      -> Advisories
      [] e = "info"           -> Advisories
      [] OTHER                -> {Null}

\* the emitter calls every listener registered for the event, in order
RECURSIVE Dispatch(_, _, _, _)
Dispatch(e, S, payload, n) ==
    IF n = 0 THEN S ELSE Dispatch(e, Handler(e, S, payload), payload, n - 1)

\* write a store value back to the variables
Commit(S) ==
    /\ agentState' = S.agentState
    /\ isSending' = S.isSending
    /\ messages' = S.messages
    /\ tokenUsage' = S.tokenUsage
    /\ prevMonologue' = S.prevMonologue
    /\ toasts' = S.toasts

Quiet == emits' = <<>> /\ netCalls' = <<>> /\ threw' = FALSE

Op(name) == [op |-> name, n |-> 0, type |-> Null, ok |-> TRUE]

(***************************************************************************)
(* History of AgentState replacements, kept beside the program state:      *)
(*   truthy  the internal_monologue of the latest replacement that carried *)
(*           a truthy one (Null before the first)                          *)
(*   seen    the same, except that it starts again at each attach from the *)
(*           internal_monologue of the AgentState held at that moment      *)
(***************************************************************************)
Replaced(h, m) ==
    IF Truthy(m) THEN [h EXCEPT !.truthy = m, !.seen = m] ELSE h

Attached(h, state) == [h EXCEPT !.seen = Monologue(state)]

(***************************************************************************)
(* History of the fetches a detach found in flight:                        *)
(*   fenced[k]  how many message-log, agent-state or bootstrap fetches     *)
(*              were awaiting their response at the latest detach made     *)
(*              while connected, and still are                             *)
(***************************************************************************)
FetchKinds == {"messages", "agent-state", "data"}

NoHistory == [truthy |-> Null, seen |-> Null, fenced |-> [k \in FetchKinds |-> 0]]

\* a detach made while `inFlight[k]` fetches of each kind await their response
Detached(h, inFlight) == [h EXCEPT !.fenced = inFlight]

\* whether the fetch of kind k that completes now, one of n in flight, can be
\* one of those started before the detach
FencedChoices(h, k, n) ==
    IF h.fenced[k] = 0 THEN {FALSE}
    ELSE IF h.fenced[k] = n THEN {TRUE} ELSE BOOLEAN

Completed(h, k, wasFenced) ==
    IF wasFenced THEN [h EXCEPT !.fenced[k] = @ - 1] ELSE h

(***************************************************************************)
(* Snapshot Cache (store.js)                                               *)
(***************************************************************************)
StorageKeys == {"selectedProject", "selectedModel", "selectedSearchEngine"}

\* store.js:53-55
DefaultValue(key) ==
    CASE key = "selectedProject"      -> "select project"
      [] key = "selectedModel"        -> "select model"
      [] key = "selectedSearchEngine" -> "select search engine"

\* localStorage stores strings: String(null) is "null"
ToStorageString(v) == IF v = Null THEN "null" ELSE v

\* mutant: every selection is written under the project's key
SetItemOneKey(l, key, value) ==
    [l EXCEPT !["selectedProject"] = ToStorageString(value)]

SetItem(l, key, value) == [l EXCEPT ![key] = ToStorageString(value)]

GetItem(l, key) == l[key]

\* the value read and the cache after the read
getItemFromLocalStorage(l, key, defaultValue) ==
    LET storedValue == GetItem(l, key)
    IN  IF Truthy(storedValue)
        THEN [value |-> storedValue, ls |-> l]
        ELSE [value |-> defaultValue, ls |-> SetItem(l, key, defaultValue)]

\* store.set(first read), then subscribe: the callback runs at once and
\* writes the value back
subscribeAndStore(l, key, defaultValue) ==
    LET r == getItemFromLocalStorage(l, key, defaultValue)
    IN  [value |-> r.value, ls |-> SetItem(r.ls, key, r.value)]

\* the cache after store.js has run on cache contents l
LoadedCache(l) ==
    [key \in StorageKeys |-> subscribeAndStore(l, key, DefaultValue(key)).ls[key]]

LoadedSelection(l) ==
    [key \in StorageKeys |-> subscribeAndStore(l, key, DefaultValue(key)).value]

EmptyCache == [key \in StorageKeys |-> Null]

\* the values the UI writes to a selection store: none, or an identifier
SelectionValues == {"", "gpt-4"}

\* the gateway operations modelled with a request and a response step
Requests == {"messages", "status", "data"}

NoPending == [r \in Requests |-> 0]

\* localStorage.getItem("defaultData") before any bootstrap load
NoItem == [absent |-> TRUE]

\* the names given to createProject and deleteProject
ProjectNames == {"demo", "site"}

\* a call of createProject or deleteProject, with its argument
ProjectCalls == [op : {"create", "delete"}, name : ProjectNames]

NoProjectOps == [c \in ProjectCalls |-> 0]

\* store.js:58-60 (modelList starts as an empty object)
EmptyLists == [projects |-> <<>>, models |-> <<>>, search_engines |-> <<>>]

IdleExec == [pc |-> "idle", result |-> "none", refetches |-> 0, replaces |-> 0]

(***************************************************************************)
(* Initial state: the modules have been loaded on an empty cache           *)
(***************************************************************************)
Init ==
    /\ agentState = NullState
    /\ isSending = FALSE
    /\ messages = <<>>
    /\ tokenUsage = 0
    /\ prevMonologue = Null
    /\ subscribers = 0
    /\ handlers = [e \in OwnEvents |-> 0]
    /\ listeners = [c \in ListenerChannels |-> 0]
    /\ opened = FALSE
    /\ connected = FALSE
    /\ selection = LoadedSelection(EmptyCache)
    /\ ls = LoadedCache(EmptyCache)
    /\ pendingAgentFetch = 0
    /\ exec = IdleExec
    /\ hist = NoHistory
    /\ pending = NoPending
    /\ inFlightAppends = 0
    /\ lists = EmptyLists
    /\ defaultData = NoItem
    /\ projectOps = NoProjectOps
    /\ toasts = <<>>
    /\ emits = <<>>
    /\ netCalls = <<>>
    /\ threw = FALSE
    /\ lastOp = Op("load")

(***************************************************************************)
(* Event Channel Manager                                                   *)
(***************************************************************************)
\* socket.on(e, fn) appends a listener; it does not replace one already there
SocketOn(h, e) == [h EXCEPT ![e] = @ + 1]

\* socket.off(e) without a listener argument removes every listener of e
SocketOff(h, e) == [h EXCEPT ![e] = 0]

RegisterAll(h) ==
    SocketOn(SocketOn(SocketOn(SocketOn(SocketOn(SocketOn(h,
        "socket_response"), "server-message"), "agent-state"), "tokens"),
        "inference"), "info")

UnregisterAll(h) ==
    SocketOff(SocketOff(SocketOff(SocketOff(SocketOff(SocketOff(h,
        "socket_response"), "server-message"), "agent-state"), "tokens"),
        "inference"), "info")

\* mutant: attach resets the last-seen monologue instead of seeding it
SeedMonologueNull(S) == [S EXCEPT !.prevMonologue = Null]

\* mutant: attach keeps the last-seen monologue it finds
SeedMonologueStale(S) == S

\* let state = get(agentState); prevMonologue = state?.internal_monologue
SeedMonologue(S) == [S EXCEPT !.prevMonologue = Monologue(S.agentState)]

\* socket.off(e) for the six names, on the listeners collaborators registered:
\* it is called without a listener argument, so theirs go as well
OffOwnEvents(l) == [c \in DOMAIN l |-> IF c \in OwnEvents THEN 0 ELSE l[c]]

\* socketListener(channel, callback): socket.on(channel, callback)
socketListener ==
    \E channel \in ListenerChannels :
        /\ listeners[channel] < MaxCallbacks
        /\ listeners' = [listeners EXCEPT ![channel] = @ + 1]
        /\ Commit(Cur)
        /\ Quiet
        /\ lastOp' = [Op("socket-listener") EXCEPT !.type = channel]
        /\ UNCHANGED <<subscribers, handlers, opened, connected, cacheVars,
                       pendingAgentFetch, exec, hist, fetchVars>>

initializeSockets ==
    /\ subscribers < MaxAttach
    /\ opened' = TRUE
    /\ emits' = <<"socket_connect">>
    /\ handlers' = RegisterAll(handlers)
    /\ subscribers' = subscribers + 1
       \* subscribe() calls the new callback at once with the current value
    /\ Commit(MonologueSubscriber(SeedMonologue(Cur)))
    /\ hist' = Attached(hist, agentState)
    /\ netCalls' = <<>>
    /\ threw' = FALSE
    /\ lastOp' = Op("attach")
    /\ UNCHANGED <<listeners, connected, cacheVars, pendingAgentFetch, exec, fetchVars>>

\* the fetches awaiting their response, per kind
InFlight ==
    [k \in FetchKinds |-> IF k = "agent-state" THEN pendingAgentFetch ELSE pending[k]]

\* mutant: the listeners are removed without asking whether the socket is connected
destroySocketsUnguarded ==
    /\ handlers' = UnregisterAll(handlers)
    /\ listeners' = OffOwnEvents(listeners)
    /\ Commit(Cur)
    /\ Quiet
    /\ lastOp' = [Op("detach") EXCEPT !.ok = connected]
    /\ UNCHANGED <<subscribers, opened, connected, cacheVars, pendingAgentFetch,
                   exec, hist, fetchVars>>

destroySockets ==
    /\ handlers' = IF connected THEN UnregisterAll(handlers) ELSE handlers
    /\ listeners' = IF connected THEN OffOwnEvents(listeners) ELSE listeners
    /\ hist' = IF connected THEN Detached(hist, InFlight) ELSE hist
    /\ Commit(Cur)
    /\ Quiet
    /\ lastOp' = [Op("detach") EXCEPT !.ok = connected]
    /\ UNCHANGED <<subscribers, opened, connected, cacheVars, pendingAgentFetch,
                   exec, fetchVars>>

\* the transport finishes connecting after socket.connect()
SocketConnected ==
    /\ opened /\ ~connected
    /\ connected' = TRUE
    /\ Commit(Cur)
    /\ Quiet
    /\ lastOp' = Op("connected")
    /\ UNCHANGED <<subscribers, handlers, listeners, opened, cacheVars,
                   pendingAgentFetch, exec, hist, fetchVars>>

\* the transport loses its connection
SocketDropped ==
    /\ connected
    /\ connected' = FALSE
    /\ Commit(Cur)
    /\ Quiet
    /\ lastOp' = Op("dropped")
    /\ UNCHANGED <<subscribers, handlers, listeners, opened, cacheVars,
                   pendingAgentFetch, exec, hist, fetchVars>>

\* the server sends event e with `payload`; every registered listener runs
Deliver(e, payload, op) ==
    /\ connected
    /\ Commit(Dispatch(e, Cur, payload, handlers[e]))
    /\ Quiet
    /\ lastOp' = op
    /\ UNCHANGED <<channelVars, cacheVars, pendingAgentFetch, exec, pending, bootVars, projectOps>>

SocketResponseEvent ==
    /\ Deliver("socket_response", Null,
               [Op("socket_response") EXCEPT !.n = handlers["socket_response"]])
    /\ UNCHANGED <<hist, inFlightAppends>>

ServerMessageEvent ==
    \E m \in MessageRecords :
        /\ Len(messages) + handlers["server-message"] <= MaxLog
        /\ Deliver("server-message", [messages |-> m],
                   [op |-> "server-message", n |-> handlers["server-message"],
                    type |-> Null, ok |-> TRUE, record |-> m])
        /\ inFlightAppends' = IF pending["messages"] > 0
                              THEN inFlightAppends + handlers["server-message"]
                              ELSE inFlightAppends
        /\ UNCHANGED hist

AgentStateEvent ==
    \E state \in Batches :
        /\ Deliver("agent-state", state,
                   [op |-> "agent-state", n |-> handlers["agent-state"],
                    type |-> Null, ok |-> TRUE, len |-> Len(state),
                    last |-> state[Len(state)], sending |-> isSending])
        /\ hist' = IF handlers["agent-state"] > 0
                   THEN Replaced(hist, state[Len(state)].internal_monologue)
                   ELSE hist
        /\ UNCHANGED inFlightAppends

TokensEvent ==
    \E t \in TokenCounts :
        /\ Deliver("tokens", [token_usage |-> t],
                   [op |-> "tokens", n |-> handlers["tokens"], type |-> Null,
                    ok |-> TRUE, count |-> t])
        /\ UNCHANGED <<hist, inFlightAppends>>

InferenceEvent ==
    \E error \in Advisories :
        /\ Deliver("inference", error,
                   [op |-> "inference", n |-> handlers["inference"],
                    type |-> error.type, ok |-> TRUE, message |-> error.message,
                    sending |-> isSending])
        /\ UNCHANGED <<hist, inFlightAppends>>

InfoEvent ==
    \E info \in Advisories :
        /\ Deliver("info", info,
                   [op |-> "info", n |-> handlers["info"], type |-> info.type,
                    ok |-> TRUE, message |-> info.message, sending |-> isSending])
        /\ UNCHANGED <<hist, inFlightAppends>>

(***************************************************************************)
(* Session Store writes made by the UI                                     *)
(***************************************************************************)
\* isSending.set(true): the UI marks an invocation as outstanding
SetSending ==
    /\ ~isSending
    /\ Commit(IsSendingSet(Cur, TRUE))
    /\ Quiet
    /\ lastOp' = Op("set-sending")
    /\ UNCHANGED <<channelVars, cacheVars, pendingAgentFetch, exec, hist, fetchVars>>

\* store.set(v) on a selection store: when the value changes, the callback
\* subscribeAndStore subscribed writes it to the cache
SelectionSet(key, v) ==
    /\ selection[key] # v
    /\ selection' = [selection EXCEPT ![key] = v]
    /\ ls' = SetItem(ls, key, v)
    /\ Commit(Cur)
    /\ Quiet
    /\ lastOp' = [Op("select") EXCEPT !.type = key]
    /\ UNCHANGED <<channelVars, pendingAgentFetch, exec, hist, fetchVars>>

SelectModel == \E v \in SelectionValues : SelectionSet("selectedModel", v)

\* the values the UI writes to the other two selection stores
ProjectValues == {"", "demo"}

SearchEngineValues == {"", "bing"}

SelectProject == \E v \in ProjectValues : SelectionSet("selectedProject", v)

SelectSearchEngine ==
    \E v \in SearchEngineValues : SelectionSet("selectedSearchEngine", v)

\* the page is loaded again: every module starts over (store.js runs on the
\* cache as it is now), requests in flight are dropped, localStorage stays
Restart ==
    /\ agentState' = NullState
    /\ isSending' = FALSE
    /\ messages' = <<>>
    /\ tokenUsage' = 0
    /\ prevMonologue' = Null
    /\ subscribers' = 0
    /\ handlers' = [e \in OwnEvents |-> 0]
    /\ listeners' = [c \in ListenerChannels |-> 0]
    /\ opened' = FALSE
    /\ connected' = FALSE
    /\ selection' = LoadedSelection(ls)
    /\ ls' = LoadedCache(ls)
    /\ pendingAgentFetch' = 0
    /\ exec' = IdleExec
    /\ hist' = NoHistory
    /\ pending' = NoPending
    /\ inFlightAppends' = 0
    /\ lists' = EmptyLists
    /\ projectOps' = NoProjectOps
    /\ toasts' = <<>>
    /\ Quiet
    /\ lastOp' = Op("restart")
    /\ UNCHANGED defaultData

(***************************************************************************)
(* Fetch Gateway                                                           *)
(***************************************************************************)
\* message logs the server may return
Logs == UNION {[1..n -> MessageRecords] : n \in 0..MaxLog}

\* fetchAgentState up to its first await
fetchAgentState ==
    /\ pendingAgentFetch < MaxInflight
    /\ pendingAgentFetch' = pendingAgentFetch + 1
    /\ Commit(Cur)
    /\ emits' = <<>>
    /\ netCalls' = <<[endpoint |-> "get-agent-state",
                      project_name |-> GetItem(ls, "selectedProject")]>>
    /\ threw' = FALSE
    /\ lastOp' = Op("fetch-agent-state")
    /\ UNCHANGED <<channelVars, cacheVars, exec, hist, fetchVars>>

\* fetchAgentState after its awaits: the request or the body decoding failed
\* (the function rejects), or data.state is stored
fetchAgentStateDone ==
    /\ pendingAgentFetch > 0
    /\ pendingAgentFetch' = pendingAgentFetch - 1
    /\ \E ok \in BOOLEAN :
       \E state \in IF ok THEN AgentStates \cup {NullState} ELSE {NullState} :
       \E wasFenced \in FencedChoices(hist, "agent-state", pendingAgentFetch) :
          /\ Commit(IF ok THEN AgentStateSet(Cur, state) ELSE Cur)
          /\ hist' = Completed(IF ok THEN Replaced(hist, Monologue(state)) ELSE hist,
                               "agent-state", wasFenced)
          /\ threw' = ~ok
          /\ lastOp' = [op |-> "agent-state-fetched", n |-> 0, type |-> Null,
                        ok |-> ok, last |-> state, fenced |-> wasFenced]
    /\ emits' = <<>>
    /\ netCalls' = <<>>
    /\ UNCHANGED <<channelVars, cacheVars, exec, fetchVars>>

\* if (!modelId)
ModelMissing(modelId) == ~Truthy(modelId)

\* fetchMessages up to its first await: the request it issues
MessagesRequest(l) ==
    [endpoint |-> "messages", project_name |-> GetItem(l, "selectedProject")]

\* executeAgent up to its first await
executeAgent ==
    /\ exec.pc = "idle"
    /\ LET projectName == GetItem(ls, "selectedProject")
           modelId == GetItem(ls, "selectedModel")
       IN  IF ModelMissing(modelId)
           THEN /\ Commit([Cur EXCEPT !.toasts =
                      <<[level |-> "alert",
                         message |-> "Please select the LLM model first."]>>])
                /\ netCalls' = <<>>
                /\ exec' = [IdleExec EXCEPT !.result = "rejected"]
           ELSE /\ Commit(Cur)
                /\ netCalls' = <<[endpoint |-> "execute-agent",
                                  base_model |-> modelId,
                                  project_name |-> projectName]>>
                /\ exec' = [IdleExec EXCEPT !.pc = "invoking", !.result = "pending"]
    /\ emits' = <<>>
    /\ threw' = FALSE
    /\ lastOp' = Op("execute-agent")
    /\ UNCHANGED <<channelVars, cacheVars, pendingAgentFetch, hist, fetchVars>>

\* executeAgent after `await fetch(execute-agent)`: a rejected request ends
\* the task by raising; otherwise fetchMessages runs up to its first await
executeAgentInvoked ==
    /\ exec.pc = "invoking"
    /\ \E ok \in BOOLEAN :
          /\ IF ok
             THEN /\ netCalls' = <<MessagesRequest(ls)>>
                  /\ exec' = [exec EXCEPT !.pc = "refetching",
                                          !.refetches = @ + 1]
             ELSE /\ netCalls' = <<>>
                  /\ exec' = [exec EXCEPT !.pc = "idle", !.result = "invoke-failed"]
          /\ threw' = ~ok
          /\ lastOp' = [Op("execute-agent-invoked") EXCEPT !.ok = ok]
    /\ Commit(Cur)
    /\ emits' = <<>>
    /\ UNCHANGED <<channelVars, cacheVars, pendingAgentFetch, hist, fetchVars>>

\* mutant: the fetched log is appended to the log held
MessagesSetAppend(S, log) == [S EXCEPT !.messages = @ \o log]

\* mutant: the log held is kept when it is longer than the fetched one
MessagesSetKeepLonger(S, log) ==
    IF Len(S.messages) > Len(log) THEN S ELSE [S EXCEPT !.messages = log]

\* messages.set(data.messages)
MessagesSet(S, log) == [S EXCEPT !.messages = log]

\* fetchMessages, called on its own, up to its first await
fetchMessages ==
    /\ pending["messages"] < MaxInflight
    /\ pending' = [pending EXCEPT !["messages"] = @ + 1]
    /\ Commit(Cur)
    /\ emits' = <<>>
    /\ netCalls' = <<MessagesRequest(ls)>>
    /\ threw' = FALSE
    /\ lastOp' = Op("fetch-messages")
    /\ UNCHANGED <<channelVars, cacheVars, pendingAgentFetch, exec, hist,
                   inFlightAppends, bootVars, projectOps>>

\* fetchMessages after its awaits: the request or the body decoding failed
\* (the function rejects), or the log is replaced by data.messages
fetchMessagesDone ==
    /\ pending["messages"] > 0
    /\ pending' = [pending EXCEPT !["messages"] = @ - 1]
    /\ \E ok \in BOOLEAN :
       \E log \in IF ok THEN Logs ELSE {<<>>} :
       \E wasFenced \in FencedChoices(hist, "messages", pending["messages"]) :
          /\ Commit(IF ok THEN MessagesSet(Cur, log) ELSE Cur)
          /\ inFlightAppends' = IF ok \/ pending["messages"] = 1
                                THEN 0 ELSE inFlightAppends
          /\ hist' = Completed(hist, "messages", wasFenced)
          /\ threw' = ~ok
          /\ lastOp' = [op |-> "messages-fetched", n |-> 0, type |-> Null,
                        ok |-> ok, log |-> log, appended |-> inFlightAppends,
                        fenced |-> wasFenced]
    /\ emits' = <<>>
    /\ netCalls' = <<>>
    /\ UNCHANGED <<channelVars, cacheVars, pendingAgentFetch, exec, bootVars, projectOps>>

\* executeAgent after `await fetchMessages()`: the request or the body
\* decoding failed (the task ends by raising), or the log is replaced
executeAgentRefetched ==
    /\ exec.pc = "refetching"
    /\ \E ok \in BOOLEAN :
       \E log \in IF ok THEN Logs ELSE {<<>>} :
          /\ Commit(IF ok THEN MessagesSet(Cur, log) ELSE Cur)
          /\ exec' = IF ok
                     THEN [exec EXCEPT !.pc = "idle", !.result = "done",
                                       !.replaces = @ + 1]
                     ELSE [exec EXCEPT !.pc = "idle", !.result = "refetch-failed"]
          /\ threw' = ~ok
          /\ inFlightAppends' = IF ok THEN 0 ELSE inFlightAppends
          /\ lastOp' = [op |-> "execute-agent-refetched", n |-> 0, type |-> Null,
                        ok |-> ok, log |-> log]
    /\ emits' = <<>>
    /\ netCalls' = <<>>
    /\ UNCHANGED <<channelVars, cacheVars, pendingAgentFetch, hist, pending, bootVars, projectOps>>

\* what `await fetch(url)` can do: resolve with a 2xx response, resolve with
\* an error response (fetch does not reject on HTTP status), or reject
FetchOutcomes == {"ok", "http-error", "network-error"}

\* mutant: an error response counts as unreachable
StatusResultOkOnly(outcome) == outcome = "ok"

\* try { await fetch(...); return true; } catch (error) { return false; }
StatusResult(outcome) == outcome # "network-error"

\* checkServerStatus up to its await
checkServerStatus ==
    /\ pending["status"] < MaxInflight
    /\ pending' = [pending EXCEPT !["status"] = @ + 1]
    /\ Commit(Cur)
    /\ emits' = <<>>
    /\ netCalls' = <<[endpoint |-> "status"]>>
    /\ threw' = FALSE
    /\ lastOp' = Op("check-server-status")
    /\ UNCHANGED <<channelVars, cacheVars, pendingAgentFetch, exec, hist,
                   inFlightAppends, bootVars, projectOps>>

\* checkServerStatus after its await: the promise it returned settles
checkServerStatusDone ==
    /\ pending["status"] > 0
    /\ pending' = [pending EXCEPT !["status"] = @ - 1]
    /\ \E outcome \in FetchOutcomes :
          lastOp' = [op |-> "status-probed", n |-> 0, type |-> Null, ok |-> TRUE,
                     outcome |-> outcome, result |-> StatusResult(outcome)]
    /\ Commit(Cur)
    /\ Quiet
    /\ UNCHANGED <<channelVars, cacheVars, pendingAgentFetch, exec, hist,
                   inFlightAppends, bootVars, projectOps>>

\* bodies /api/data may return
Datasets ==
    {[projects |-> <<"demo">>, models |-> <<"gpt-4">>, search_engines |-> <<"bing">>],
     [projects |-> <<"demo", "site">>, models |-> <<"gpt-4", "claude-3">>,
      search_engines |-> <<"bing", "google">>]}

\* JSON.stringify(data): the text of the whole body
Stringify(data) == [json |-> data]

\* mutant: the search-engine list is not set
ApplyInitialDataNoEngines(L, data) ==
    [L EXCEPT !.projects = data.projects, !.models = data.models]

\* projectList.set / modelList.set / searchEngineList.set
ApplyInitialData(L, data) ==
    [L EXCEPT !.projects = data.projects, !.models = data.models,
              !.search_engines = data.search_engines]

\* fetchInitialData up to its first await
fetchInitialData ==
    /\ pending["data"] < MaxInflight
    /\ pending' = [pending EXCEPT !["data"] = @ + 1]
    /\ Commit(Cur)
    /\ emits' = <<>>
    /\ netCalls' = <<[endpoint |-> "data"]>>
    /\ threw' = FALSE
    /\ lastOp' = Op("fetch-initial-data")
    /\ UNCHANGED <<channelVars, cacheVars, pendingAgentFetch, exec, hist,
                   inFlightAppends, bootVars, projectOps>>

\* fetchInitialData after its awaits: the request or the body decoding failed
\* (the function rejects), or the three lists and the cached copy are written
fetchInitialDataDone ==
    /\ pending["data"] > 0
    /\ pending' = [pending EXCEPT !["data"] = @ - 1]
    /\ \E ok \in BOOLEAN :
       \E data \in IF ok THEN Datasets ELSE {Null} :
       \E wasFenced \in FencedChoices(hist, "data", pending["data"]) :
          /\ lists' = IF ok THEN ApplyInitialData(lists, data) ELSE lists
          /\ defaultData' = IF ok THEN Stringify(data) ELSE defaultData
          /\ hist' = Completed(hist, "data", wasFenced)
          /\ threw' = ~ok
          /\ lastOp' = [op |-> "initial-data-fetched", n |-> 0, type |-> Null,
                        ok |-> ok, data |-> data, fenced |-> wasFenced]
    /\ Commit(Cur)
    /\ emits' = <<>>
    /\ netCalls' = <<>>
    /\ UNCHANGED <<channelVars, cacheVars, pendingAgentFetch, exec,
                   inFlightAppends, projectOps>>

\* the request a project operation issues
ProjectRequest(c) ==
    [endpoint |-> IF c.op = "create" THEN "create-project" ELSE "delete-project",
     project_name |-> c.name]

\* createProject or deleteProject up to its await
ProjectCall(c) ==
    /\ projectOps[c] < MaxInflight
    /\ projectOps' = [projectOps EXCEPT ![c] = @ + 1]
    /\ Commit(Cur)
    /\ emits' = <<>>
    /\ netCalls' = <<ProjectRequest(c)>>
    /\ threw' = FALSE
    /\ lastOp' = [Op("project-call") EXCEPT !.type = c.op]
    /\ UNCHANGED <<channelVars, cacheVars, pendingAgentFetch, exec, hist,
                   pending, inFlightAppends, bootVars>>

createProject ==
    \E projectName \in ProjectNames :
        /\ Len(lists.projects) + projectOps[[op |-> "create", name |-> projectName]]
              < MaxProjects
        /\ ProjectCall([op |-> "create", name |-> projectName])

deleteProject ==
    \E projectName \in ProjectNames :
        ProjectCall([op |-> "delete", name |-> projectName])

\* projectList.update((projects) => [...projects, projectName])
AddProject(L, projectName) == [L EXCEPT !.projects = Append(@, projectName)]

\* a project operation after `await fetch(...)`: the request was rejected (the
\* function rejects), or the rest of the function runs and leaves the lists
\* as `after`
ProjectDone(c, after) ==
    /\ projectOps[c] > 0
    /\ projectOps' = [projectOps EXCEPT ![c] = @ - 1]
    /\ \E ok \in BOOLEAN :
          /\ lists' = IF ok THEN after ELSE lists
          /\ threw' = ~ok
          /\ lastOp' = [op |-> "project-done", n |-> 0, type |-> c.op, ok |-> ok,
                        name |-> c.name]
    /\ Commit(Cur)
    /\ emits' = <<>>
    /\ netCalls' = <<>>
    /\ UNCHANGED <<channelVars, cacheVars, pendingAgentFetch, exec, hist,
                   pending, inFlightAppends, defaultData>>

createProjectDone ==
    \E projectName \in ProjectNames :
        ProjectDone([op |-> "create", name |-> projectName],
                    AddProject(lists, projectName))

\* deleteProject has no statement after its await
KeepProjects(L, projectName) == L

deleteProjectDone ==
    \E projectName \in ProjectNames :
        ProjectDone([op |-> "delete", name |-> projectName],
                    KeepProjects(lists, projectName))

(***************************************************************************)
(* Specifications                                                          *)
(***************************************************************************)
\* a channel that stays attached and connected, and its streamed events
SessionNext ==
    \/ initializeSockets
    \/ SocketConnected
    \/ SetSending
    \/ AgentStateEvent
    \/ TokensEvent
    \/ InferenceEvent
    \/ InfoEvent

\* the channel and its streamed events
ChannelNext ==
    \/ initializeSockets
    \/ destroySockets
    \/ SocketConnected
    \/ SocketDropped
    \/ SocketResponseEvent
    \/ ServerMessageEvent
    \/ AgentStateEvent
    \/ TokensEvent
    \/ InferenceEvent
    \/ InfoEvent
    \/ SetSending

\* AgentState replacements, streamed and fetched, and the deduplicator
MonologueNext ==
    \/ initializeSockets
    \/ destroySockets
    \/ SocketConnected
    \/ SocketDropped
    \/ AgentStateEvent
    \/ fetchAgentState
    \/ fetchAgentStateDone

\* agent invocation against the cache, with messages streaming in
GatewayNext ==
    \/ SelectModel
    \/ SetSending
    \/ executeAgent
    \/ executeAgentInvoked
    \/ executeAgentRefetched
    \/ fetchMessages
    \/ fetchMessagesDone
    \/ initializeSockets
    \/ SocketConnected
    \/ ServerMessageEvent

\* the selection stores and their cache, restarts, and the start-up requests
StoreNext ==
    \/ SelectProject
    \/ SelectModel
    \/ SelectSearchEngine
    \/ Restart
    \/ checkServerStatus
    \/ checkServerStatusDone
    \/ fetchInitialData
    \/ fetchInitialDataDone

\* attach and detach around the fetches that write the Session Store
FenceNext ==
    \/ initializeSockets
    \/ SocketConnected
    \/ destroySockets
    \/ fetchMessages
    \/ fetchMessagesDone
    \/ fetchAgentState
    \/ fetchAgentStateDone
    \/ fetchInitialData
    \/ fetchInitialDataDone
    \/ ServerMessageEvent

\* the channel and the listeners of collaborators
ListenersNext ==
    \/ initializeSockets
    \/ destroySockets
    \/ SocketConnected
    \/ SocketDropped
    \/ socketListener

\* everything in this layer that runs around the sending flag: the channel,
\* the events whose handlers write it, the fetches, and the UI setting it
SendingNext ==
    \/ SetSending
    \/ initializeSockets
    \/ SocketConnected
    \/ destroySockets
    \/ AgentStateEvent
    \/ InferenceEvent
    \/ InfoEvent
    \/ executeAgent
    \/ executeAgentInvoked
    \/ executeAgentRefetched

\* the project operations
ProjectsNext ==
    \/ createProject
    \/ createProjectDone
    \/ deleteProject
    \/ deleteProjectDone

Next ==
    \/ ChannelNext
    \/ SessionNext
    \/ MonologueNext
    \/ GatewayNext
    \/ StoreNext
    \/ FenceNext
    \/ ListenersNext
    \/ SendingNext
    \/ ProjectsNext

Spec == Init /\ [][ChannelNext]_vars

SpecSession == Init /\ [][SessionNext]_vars

SpecMonologue == Init /\ [][MonologueNext]_vars

SpecGateway == Init /\ [][GatewayNext]_vars

SpecStore == Init /\ [][StoreNext]_vars

SpecFence == Init /\ [][FenceNext]_vars

SpecListeners == Init /\ [][ListenersNext]_vars

SpecSending == Init /\ [][SendingNext]_vars

SpecProjects == Init /\ [][ProjectsNext]_vars

SpecAll == Init /\ [][Next]_vars

(***************************************************************************)
(* Properties                                                              *)
(***************************************************************************)
InboundEvents == {"server-message", "agent-state", "tokens", "inference", "info"}

AdvisoryEvents == {"inference", "info"}

RoutedKinds == {"error", "warning", "info"}

\* the last step handled an agent-state event (at least one listener ran)
AgentStateHandled == lastOp.op = "agent-state" /\ lastOp.n > 0

\* the last step handled an advisory event
AdvisoryHandled == lastOp.op \in AdvisoryEvents /\ lastOp.n > 0

\* C1: under streamed agent-state events, the stored AgentState is always the
\* last element of the last array handled, whole: a handled event stores
\* exactly that element, and no other step of the channel changes the store.
C1_LastElementWins ==
    [][IF AgentStateHandled'
       THEN agentState' = lastOp'.last
       ELSE agentState' = agentState]_vars

\* a batch of two whose last element differs from every earlier one has been stored
C1_Witness ==
    /\ AgentStateHandled
    /\ lastOp.len > 1
    /\ lastOp.last.internal_monologue = Null
    /\ agentState = lastOp.last

\* C3 (as claimed): at most one listener is registered per inbound event,
\* whatever attach and detach calls were made, so a delivered event is
\* applied once.
C3_AtMostOneHandler ==
    /\ \A e \in InboundEvents : handlers[e] <= 1
    /\ lastOp.op \in InboundEvents => lastOp.n <= 1

\* C6: an agent-state event whose last element is completed leaves the
\* sending flag false, whatever the flag was before.
C6_CompletedClearsSending ==
    (AgentStateHandled /\ lastOp.last.completed) => ~isSending

\* the flag was set when the terminal snapshot arrived, and is now clear
C6_Witness ==
    /\ AgentStateHandled
    /\ lastOp.last.completed
    /\ lastOp.sending
    /\ ~isSending

\* C7: an inference event of type "error" leaves the sending flag false and
\* AgentState, MessageLog and TokenUsage as they were.
C7_InferenceErrorClearsSending ==
    [][(lastOp'.op = "inference" /\ lastOp'.n > 0 /\ lastOp'.type = "error")
         => /\ ~isSending'
            /\ UNCHANGED <<agentState, messages, tokenUsage>>]_vars

\* an inference error arrived while sending, with an agent state that is
\* not completed
C7_Witness ==
    /\ lastOp.op = "inference" /\ lastOp.n > 0 /\ lastOp.type = "error"
    /\ lastOp.sending
    /\ ~isSending
    /\ agentState # NullState
    /\ ~agentState.completed
    /\ messages # <<>>

\* C8 (as claimed): an inference or info event of kind error, warning or
\* info, handled by its one listener, shows exactly one advisory of that
\* level carrying the event's message.
C8_OneAdvisoryPerKind ==
    (lastOp.op \in AdvisoryEvents /\ lastOp.n = 1 /\ lastOp.type \in RoutedKinds)
        => toasts = <<[level |-> lastOp.type, message |-> lastOp.message]>>

\* C9: an advisory event of kind warning or info changes no Session Store
\* field, and an advisory event that changes the sending flag is of kind error.
C9_WarningInfoFrame ==
    [][(lastOp'.op \in AdvisoryEvents)
         => /\ lastOp'.type \in {"warning", "info"} => UNCHANGED sessionVars
            /\ isSending' # isSending => lastOp'.type = "error"]_vars

\* a warning was shown while sending, and the flag is still set
C9_Witness ==
    /\ lastOp.op = "info" /\ lastOp.n > 0 /\ lastOp.type = "warning"
    /\ toasts = <<[level |-> "warning", message |-> lastOp.message]>>
    /\ lastOp.sending
    /\ isSending

\* C10: an advisory event whose kind is none of error, warning, info (or is
\* missing) shows nothing, changes no store field and does not raise.
C10_UnknownKindNoOp ==
    [][(lastOp'.op \in AdvisoryEvents /\ lastOp'.type \notin RoutedKinds)
         => /\ toasts' = <<>>
            /\ ~threw'
            /\ UNCHANGED <<sessionVars, prevMonologue, selection, ls>>]_vars

\* an info event without a kind was handled while sending
C10_Witness ==
    /\ lastOp.op = "info" /\ lastOp.n > 0 /\ lastOp.type = Null
    /\ toasts = <<>>
    /\ isSending

\* the last step replaced AgentState: a handled agent-state event, or a
\* fetchAgentState that completed
Replacement ==
    \/ AgentStateHandled
    \/ lastOp.op = "agent-state-fetched" /\ lastOp.ok

\* the monologue notifications shown by the last step
MonologueToasts == SelectSeq(toasts, LAMBDA t : t.level = "default")

\* C2 (as claimed): with the deduplicator subscribed, and whatever attach and
\* detach calls are interleaved, a replacement notifies exactly when its
\* internal_monologue is truthy and differs from the truthy value that
\* immediately preceded it.
C2_FiresIffDiffersFromPrecedingTruthy ==
    [][(Replacement' /\ subscribers > 0)
         => LET new == Monologue(lastOp'.last)
            IN  (Len(MonologueToasts') = 1) <=> (Truthy(new) /\ new # hist.truthy)]_vars

\* C2 (amended): attach itself never notifies; before the first attach no
\* replacement notifies; after it a replacement notifies, once, exactly when
\* its internal_monologue is truthy and differs from the last-seen value: the
\* latest truthy value replaced in since the latest attach, or else the
\* monologue of the AgentState held at that attach. A value equal to the one
\* it replaces never notifies, and a falsy value neither notifies nor changes
\* the last-seen value.
C2_FiresIffDiffersFromLastSeen ==
    [][/\ lastOp'.op = "attach" => MonologueToasts' = <<>>
       /\ Replacement' =>
            LET new == Monologue(lastOp'.last)
            IN  /\ Len(MonologueToasts') <= 1
                /\ (Len(MonologueToasts') = 1)
                      <=> (subscribers > 0 /\ Truthy(new) /\ new # hist.seen)
                /\ Len(MonologueToasts') = 1
                      => MonologueToasts'[1].message = new
                /\ new = Monologue(agentState) => MonologueToasts' = <<>>
                /\ ~Truthy(new) => prevMonologue' = prevMonologue]_vars

\* after a detach and a second attach, a fetched replacement notified
C2_Witness ==
    /\ lastOp.op = "agent-state-fetched" /\ lastOp.ok
    /\ subscribers = 2
    /\ handlers["agent-state"] = 1
    /\ Len(MonologueToasts) = 1
    /\ hist.truthy = hist.seen

\* the user has made no model selection: the store holds the placeholder
\* written on first read, or nothing
NoModelSelected ==
    selection["selectedModel"] \in {"", DefaultValue("selectedModel")}

\* C4 (as claimed): executeAgent without a selected model issues no request
\* and changes no Session Store field.
C4_NoModelNoCall ==
    [][(lastOp'.op = "execute-agent" /\ NoModelSelected)
         => /\ netCalls' = <<>>
            /\ exec'.pc = "idle"
            /\ UNCHANGED <<sessionVars, selection>>]_vars

\* the executeAgent task has ended, its invocation request having succeeded
InvocationSucceeded == exec.result \in {"done", "refetch-failed"}

\* C5 (as claimed): every invocation whose request succeeded has replaced the
\* message log exactly once, and one whose request failed has not.
C5_SuccessMeansOneReplace ==
    /\ InvocationSucceeded => exec.replaces = 1
    /\ exec.result = "invoke-failed" => exec.replaces = 0

\* C5 (amended): an invocation whose request succeeded issues exactly one
\* message-log refetch, after the invocation response; the log is replaced
\* once, by the fetched payload whole, when that refetch succeeds and not at
\* all when it fails, whatever server-message appends are interleaved; an
\* invocation whose request failed, or that was rejected, refetches and
\* replaces nothing.
C5_OneRefetchReplaceOnSuccess ==
    [][/\ exec'.pc = "invoking" => exec'.refetches = 0 /\ exec'.replaces = 0
       /\ exec'.pc = "refetching" => exec'.refetches = 1 /\ exec'.replaces = 0
       /\ exec'.result = "done" => exec'.refetches = 1 /\ exec'.replaces = 1
       /\ exec'.result = "refetch-failed"
             => exec'.refetches = 1 /\ exec'.replaces = 0
       /\ exec'.result \in {"invoke-failed", "rejected"}
             => exec'.refetches = 0 /\ exec'.replaces = 0
       /\ lastOp'.op = "execute-agent" => messages' = messages
       /\ lastOp'.op = "execute-agent-invoked"
             => /\ messages' = messages
                /\ netCalls' = IF lastOp'.ok THEN <<MessagesRequest(ls)>> ELSE <<>>
       /\ lastOp'.op = "execute-agent-refetched"
             => messages' = IF lastOp'.ok THEN lastOp'.log ELSE messages]_vars

\* the invocation is over with its one replace made, and a streamed message
\* has been appended to the replaced log
C5_Witness ==
    /\ exec.result = "done"
    /\ exec.replaces = 1
    /\ lastOp.op = "server-message" /\ lastOp.n > 0
    /\ Len(messages) = 2

\* C11: detach while the socket is not connected does nothing: it does not
\* raise, and the registered listeners and every store field stay as they were.
C11_DetachNotConnectedNoOp ==
    [][(lastOp'.op = "detach" /\ ~connected)
         => /\ ~threw'
            /\ toasts' = <<>>
            /\ UNCHANGED <<handlers, subscribers, sessionVars, prevMonologue,
                           cacheVars, bootVars>>]_vars

\* detach was called with listeners registered and the socket not connected
C11_Witness ==
    /\ lastOp.op = "detach" /\ ~lastOp.ok
    /\ \A e \in InboundEvents : handlers[e] > 0
    /\ messages # <<>>

\* C12 (as claimed): once executeAgent has sent the invocation request with
\* a model selected, the sending flag is set.
C12_SendingSetOnDispatch ==
    (lastOp.op = "execute-agent" /\ exec.pc = "invoking" /\ ~NoModelSelected)
        => isSending

\* C13 (as claimed): a handled server-message event extends the log by
\* exactly one entry, at the end.
C13_AppendsExactlyOne ==
    [][(lastOp'.op = "server-message" /\ lastOp'.n > 0)
         => messages' = Append(messages, lastOp'.record)]_vars

\* C14: when a message-log fetch completes, the log is exactly the fetched
\* payload, whatever it held before, entries streamed in while the request
\* was in flight included; a fetch that fails leaves the log as it was.
C14_FetchReplacesLog ==
    [][(lastOp'.op \in {"messages-fetched", "execute-agent-refetched"})
         => messages' = IF lastOp'.ok THEN lastOp'.log ELSE messages]_vars

\* a fetch completed after entries were streamed in during its flight, and
\* the log is the shorter fetched payload
C14_Witness ==
    /\ lastOp.op = "messages-fetched" /\ lastOp.ok
    /\ lastOp.appended = 2
    /\ Len(lastOp.log) = 1
    /\ messages = lastOp.log

\* the multiset of the notifications of a store value
Notifications(S) ==
    [t \in {S.toasts[i] : i \in DOMAIN S.toasts} |->
        Cardinality({i \in DOMAIN S.toasts : S.toasts[i] = t})]

\* the events e1 then e2, delivered to the listeners registered now
Then(e1, p1, e2, p2) ==
    Dispatch(e2, Dispatch(e1, Cur, p1, handlers[e1]), p2, handlers[e2])

CommuteFrom(e1, p1, e2, p2) ==
    LET A == Then(e1, p1, e2, p2)
        B == Then(e2, p2, e1, p1)
    IN  /\ [A EXCEPT !.toasts = <<>>] = [B EXCEPT !.toasts = <<>>]
        /\ Notifications(A) = Notifications(B)

\* CommuteFrom is symmetric, so each pair of names is taken once
DistinctEventsCommute ==
    \A pair \in {q \in SUBSET InboundEvents : Cardinality(q) = 2} :
        LET e1 == CHOOSE e \in pair : TRUE
            e2 == CHOOSE e \in pair : e # e1
        IN  \A p1 \in Payloads(e1) : \A p2 \in Payloads(e2) :
                CommuteFrom(e1, p1, e2, p2)

\* however many listeners `tokens` has (at least one)
TokensReplaces ==
    \A p \in Payloads("tokens") : \A n \in 1..MaxAttach :
        Dispatch("tokens", Cur, p, n) = [Cur EXCEPT !.tokenUsage = p.token_usage]

\* C15: from every reachable store, two events of distinct names handled in
\* either order give the same store and the same multiset of notifications;
\* a tokens event sets TokenUsage to its payload and changes nothing else.
C15_DistinctEventsCommute == DistinctEventsCommute /\ TokensReplaces

\* a tokens event was handled while the store held values that the other
\* handlers would change, the monologue subscription included
C15_Witness ==
    /\ lastOp.op = "tokens" /\ lastOp.n > 0
    /\ lastOp.count = 1 /\ tokenUsage = 1
    /\ isSending /\ agentState # NullState
    /\ subscribers > 0

\* C16: attach and re-attach show nothing and leave the last-seen value equal
\* to the monologue of the AgentState held at that moment; a replacement that
\* carries the last-seen value (the one seeded at the attach, as long as no
\* other truthy value has been replaced in since) shows nothing, and so does
\* in particular the replacement made right after an attach with the value
\* the store already held.
C16_AttachNeverNotifies ==
    [][/\ lastOp'.op = "attach"
            => /\ toasts' = <<>>
               /\ prevMonologue' = Monologue(agentState)
               /\ agentState' = agentState
               /\ hist'.seen = prevMonologue'
       /\ (Replacement' /\ Monologue(lastOp'.last) = hist.seen)
            => MonologueToasts' = <<>>
       /\ (lastOp.op = "attach" /\ Replacement'
             /\ Monologue(lastOp'.last) = Monologue(agentState))
            => MonologueToasts' = <<>>]_vars

\* a re-attach while the store held a monologue
C16_Witness ==
    /\ lastOp.op = "attach"
    /\ subscribers = 2
    /\ Truthy(Monologue(agentState))
    /\ prevMonologue = Monologue(agentState)
    /\ toasts = <<>>

\* C17: at every moment (after the stores are initialised, after a restart,
\* after every write to a selection store) the cache entry of each selection
\* key equals the value its store holds; a write to one selection store
\* leaves the cache entries of the other two as they were.
C17_CacheMirrorsSelection ==
    /\ [](\A key \in StorageKeys : GetItem(ls, key) = selection[key])
    /\ [][lastOp'.op = "select"
            => /\ selection'[lastOp'.type] # selection[lastOp'.type]
               /\ \A key \in StorageKeys \ {lastOp'.type} :
                     /\ GetItem(ls', key) = GetItem(ls, key)
                     /\ selection'[key] = selection[key]]_vars

\* the search engine was selected while the other two fields held values
\* written earlier
C17_Witness ==
    /\ lastOp.op = "select" /\ lastOp.type = "selectedSearchEngine"
    /\ selection["selectedSearchEngine"] = "bing"
    /\ GetItem(ls, "selectedProject") = "demo"
    /\ GetItem(ls, "selectedModel") = "gpt-4"

\* C18: a restart gives every selection field the value last written to it
\* before the restart, and puts the placeholder in the store and the cache
\* only for a key that is absent from the cache.
C18_SelectionRoundTrips ==
    [][lastOp'.op = "restart"
         => \A key \in StorageKeys :
               /\ selection'[key] = selection[key]
               /\ GetItem(ls, key) # Null => GetItem(ls', key) = GetItem(ls, key)]_vars

ListsMatchCache ==
    /\ defaultData # NoItem
    /\ lists = ApplyInitialData(EmptyLists, defaultData.json)

\* C20: a bootstrap load that succeeds leaves the three lists equal to the
\* fetched ones and the cached payload equal to the text of the whole fetched
\* body; one that fails leaves lists and cache as they were and rejects. So
\* whatever loads have run, the lists are those of the cached payload: both
\* come from the latest successful load (until a restart empties the lists).
C20_BootstrapAtomic ==
    /\ [](lists = EmptyLists \/ ListsMatchCache)
    /\ [][lastOp'.op = "initial-data-fetched"
         => IF lastOp'.ok
            THEN /\ lists'.projects = lastOp'.data.projects
                 /\ lists'.models = lastOp'.data.models
                 /\ lists'.search_engines = lastOp'.data.search_engines
                 /\ defaultData' = Stringify(lastOp'.data)
                 /\ ~threw'
            ELSE /\ UNCHANGED bootVars
                 /\ threw']_vars

\* a load of the one-project body succeeded
C20_Witness ==
    /\ lastOp.op = "initial-data-fetched" /\ lastOp.ok
    /\ Len(lastOp.data.projects) = 1
    /\ ListsMatchCache
    /\ defaultData = Stringify(lastOp.data)

\* the names on the project list
ListedProjects(L) == {L.projects[i] : i \in DOMAIN L.projects}

\* C21 (as claimed): a project create that succeeds adds the name to the
\* project list, and a project delete that succeeds removes the name from it.
C21_ProjectOpsMutateList ==
    [][(lastOp'.op = "project-done" /\ lastOp'.ok)
         => IF lastOp'.type = "create"
            THEN lists'.projects = Append(lists.projects, lastOp'.name)
            ELSE lastOp'.name \notin ListedProjects(lists')]_vars

\* the listeners of every inbound event are gone
NoListeners == \A e \in InboundEvents : handlers[e] = 0

\* C22: a message-log, agent-state or bootstrap fetch that a detach found in
\* flight applies its store write when its response arrives, and the
\* AgentState it replaces in goes through the deduplicator as any other; a
\* detach made while connected removes the listeners of every inbound event,
\* and an event delivered when its listeners are gone changes nothing and
\* shows nothing.
C22_DetachDoesNotFenceFetches ==
    [][/\ (lastOp'.op = "messages-fetched" /\ lastOp'.ok /\ lastOp'.fenced)
            => messages' = lastOp'.log
       /\ (lastOp'.op = "agent-state-fetched" /\ lastOp'.ok /\ lastOp'.fenced)
            => LET new == Monologue(lastOp'.last)
                   fires == /\ subscribers > 0
                            /\ Truthy(new)
                            /\ new # prevMonologue
               IN  /\ agentState' = lastOp'.last
                   /\ fires => /\ Len(MonologueToasts') = 1
                               /\ prevMonologue' = new
                   /\ ~fires => /\ MonologueToasts' = <<>>
                                /\ prevMonologue' = prevMonologue
       /\ (lastOp'.op = "initial-data-fetched" /\ lastOp'.ok /\ lastOp'.fenced)
            => /\ lists' = ApplyInitialData(lists, lastOp'.data)
               /\ defaultData' = Stringify(lastOp'.data)
       /\ (lastOp'.op = "detach" /\ lastOp'.ok) => NoListeners'
       /\ (lastOp'.op \in InboundEvents /\ NoListeners)
            => /\ UNCHANGED <<sessionVars, prevMonologue, bootVars>>
               /\ toasts' = <<>>]_vars

\* the response of an agent-state fetch that a detach found in flight arrived
\* while the listeners were gone, and its monologue was shown
C22_Witness ==
    /\ lastOp.op = "agent-state-fetched" /\ lastOp.ok /\ lastOp.fenced
    /\ NoListeners
    /\ agentState = lastOp.last
    /\ Len(MonologueToasts) = 1
    /\ messages # <<>>
    /\ lists # EmptyLists

\* C23 (as claimed): a detach made while connected removes only the listeners
\* that attach registered; every callback registered through socketListener,
\* on whatever channel, is still registered afterwards.
C23_DetachKeepsCollaborators ==
    [][(lastOp'.op = "detach" /\ lastOp'.ok) => listeners' = listeners]_vars

\* C24: whatever number of subscriptions the attach calls have left, one
\* AgentState replacement shows at most one monologue notification: the
\* replacement the last step made did, and so would any replacement made
\* now; the one that notifies records its monologue as the shared last-seen
\* value.
C24_OneNotificationPerReplacement ==
    /\ Replacement => Len(MonologueToasts) <= 1
    /\ \A v \in AgentStates \cup {NullState} :
          LET S == AgentStateSet(Cur, v)
          IN  /\ Len(S.toasts) <= 1
              /\ Len(S.toasts) = 1
                    => /\ S.toasts[1].message = Monologue(v)
                       /\ S.prevMonologue = Monologue(v)
                       /\ subscribers > 0

\* with two subscriptions left by two attach calls, a replacement notified once
C24_Witness ==
    /\ Replacement
    /\ subscribers = 2
    /\ handlers["agent-state"] = 1
    /\ Len(MonologueToasts) = 1
    /\ prevMonologue = Monologue(lastOp.last)

\* the batch made of the last element of `state` alone
LastOnly(state) == <<state[Len(state)]>>

\* C25: from every reachable store, an agent-state batch does what its last
\* element alone would do, to the store and to the notifications shown; so a
\* batch whose last element is not terminal leaves the sending flag as it is,
\* whatever the elements before it, and the monologues of those elements are
\* neither shown nor recorded as last-seen.
C25_OnlyLastElementObservable ==
    \A state \in Batches :
        LET S == Dispatch("agent-state", Cur, state, handlers["agent-state"])
            last == state[Len(state)]
        IN  /\ S = Dispatch("agent-state", Cur, LastOnly(state),
                            handlers["agent-state"])
            /\ ~last.completed => S.isSending = isSending
            /\ \A i \in DOMAIN S.toasts :
                  S.toasts[i].message = Monologue(last)
            /\ S.prevMonologue \in {prevMonologue, Monologue(last)}

\* a two-element batch whose last element was not terminal was handled while
\* the sending flag was set, and the flag is still set; the last-seen value
\* is not the monologue "b" of a terminal first element
C25_Witness ==
    /\ AgentStateHandled
    /\ lastOp.len = 2
    /\ ~lastOp.last.completed
    /\ lastOp.sending /\ isSending
    /\ subscribers > 0
    /\ prevMonologue = "a"

\* the last step was the UI setting the sending flag
SetByUI == lastOp.op = "set-sending"

\* the last step handled a terminal agent-state or an error advisory
ClearingEvent ==
    \/ AgentStateHandled /\ lastOp.last.completed
    \/ AdvisoryHandled /\ lastOp.type = "error"

\* C26: no step of this layer (event handler, fetch call or completion,
\* attach, detach) turns the sending flag from false to true: only the UI's
\* own write does; and the flag changes from true to false only when a
\* terminal agent-state or an error advisory is handled.
C26_NeverSetsSending ==
    [][/\ ~SetByUI' => (isSending' => isSending)
       /\ isSending' # isSending => (SetByUI' \/ ClearingEvent')
       /\ lastOp'.op \in {"execute-agent", "execute-agent-invoked",
                          "execute-agent-refetched", "attach", "detach"}
            => isSending' = isSending]_vars

\* an invocation was dispatched and its refetch completed, and the flag is
\* false
C26_Witness ==
    /\ lastOp.op = "execute-agent-refetched" /\ lastOp.ok
    /\ exec.result = "done"
    /\ ~isSending
    /\ subscribers > 0
    /\ agentState # NullState

====
